---- MODULE Spec2Model ----
(***************************************************************************)
(* Model of the subscription lifecycle and feature gate of DealerFlow Pro: *)
(* models/subscription.py (Subscription, Payment, SubscriptionService),    *)
(* routes/payments.py (the subscription and payment handlers) and          *)
(* main_complete.py (check_feature_access).                                *)
(*                                                                         *)
(* Time is counted in whole days: datetime.utcnow() is the variable now,   *)
(* timedelta(days=n) is the integer n.  A dict keyed by a counter that     *)
(* starts at 1 and is never deleted from is a sequence; None as a          *)
(* subscription index is 0 and None as a time is NoTime.                   *)
(***************************************************************************)
EXTENDS Integers, Sequences, FiniteSets, TLC

\* ------------------------------------------------------------------ bounds
\* how many days pass in one behaviour of the lifecycle
MaxTicks == 1
\* how many times the clock jumps in one behaviour of the reads
MaxJumps == 2
\* how many requests are served in one behaviour
MaxRequests == 2
\* how many Payment records are created in one behaviour
MaxPayments == 2
\* how many requests are in flight at once in the threaded server
NumThreads == 2
\* how many Image records one behaviour stores
MaxImages == 2
\* how long a listing with mixed outcomes is
MaxMixed == 3
\* by how much a listing exceeds the limit of images and a website the
\* limit of pages
MaxBeyond == 1
\* how many listings a page holds
MaxListings == 2
\* the longest text of a listing block, in characters
MaxText == 5
\* the most img tags of a listing block
MaxTags == 2

\* ------------------------------------------------------- program constants
TRIAL_DAYS == 14
MONTH_DAYS == 30
YEAR_DAYS == 365

\* the registered tenants (user ids handed out by user_service)
Users == {1, 2}
\* the advances of the clock between two reads: one day, and the lengths of
\* the trial, of the monthly and of the yearly window
JumpSteps == {1, TRIAL_DAYS, MONTH_DAYS, YEAR_DAYS}
NoTime == -1

\* SubscriptionPlan
PlanValues == {"trial", "starter", "professional", "enterprise"}
\* SubscriptionStatus
StatusValues == {"trial", "active", "past_due", "cancelled", "expired"}
\* PaymentStatus
PaymentStatusValues == {"pending", "completed", "failed", "refunded"}

\* what a request may send as 'plan': nothing, a plan name, another string
PlanInputs == PlanValues \cup {"", "platinum"}
\* what a request sends as 'billing_cycle'; every branch that reads it
\* handles any other string as it handles 'monthly'
CycleInputs == {"monthly", "yearly"}

\* ------------------------------------------------------------ plan catalog
\* Subscription.get_plan_features: the features dict of each plan
PlanFeatures(plan) ==
    CASE plan = "starter" ->
           [max_posts_per_month |-> 200, max_images |-> 500,
            platforms |-> <<"facebook", "instagram", "x">>,
            automation |-> TRUE, analytics |-> TRUE, support |-> "email",
            price_monthly |-> 197, price_yearly |-> 1970]
      [] plan = "professional" ->
           [max_posts_per_month |-> 1000, max_images |-> 2000,
            platforms |-> <<"facebook", "instagram", "x", "tiktok", "reddit">>,
            automation |-> TRUE, analytics |-> TRUE, support |-> "priority",
            price_monthly |-> 397, price_yearly |-> 3970]
      [] plan = "enterprise" ->
           [max_posts_per_month |-> -1, max_images |-> -1,
            platforms |-> <<"facebook", "instagram", "x", "tiktok", "reddit", "youtube">>,
            automation |-> TRUE, analytics |-> TRUE, support |-> "phone",
            price_monthly |-> 597, price_yearly |-> 5970]
      [] OTHER ->
           [max_posts_per_month |-> 50, max_images |-> 100,
            platforms |-> <<"facebook", "instagram">>,
            automation |-> FALSE, analytics |-> FALSE, support |-> "email",
            price_monthly |-> 0, price_yearly |-> 0]

get_plan_features(sub) == PlanFeatures(sub.plan)

\* the price lookup both upgrade paths use: yearly price for 'yearly', else monthly
PriceFor(features, billing_cycle) ==
    IF billing_cycle = "yearly" THEN features.price_yearly ELSE features.price_monthly

\* ------------------------------------------------------------- Subscription
calculate_period_end_short(current_period_start, billing_cycle) ==
    current_period_start + MONTH_DAYS

\* Subscription._calculate_period_end
calculate_period_end(current_period_start, billing_cycle) ==
    IF billing_cycle = "yearly"
    THEN current_period_start + YEAR_DAYS
    ELSE current_period_start + MONTH_DAYS

is_active_no_period_end(sub, t) ==
    IF sub.status = "trial"
    THEN t <= sub.trial_end
    ELSE sub.status = "active"

is_active_strict(sub, t) ==
    IF sub.status = "trial"
    THEN t < sub.trial_end
    ELSE sub.status = "active" /\ t < sub.current_period_end

\* Subscription.is_active at time t
is_active(sub, t) ==
    IF sub.status = "trial"
    THEN t <= sub.trial_end
    ELSE sub.status = "active" /\ t <= sub.current_period_end

Max(a, b) == IF a >= b THEN a ELSE b

days_until_renewal_signed(sub, t) ==
    IF sub.status = "trial"
    THEN sub.trial_end - t
    ELSE sub.current_period_end - t

\* Subscription.days_until_renewal at time t; with the clock in whole days
\* timedelta.days is the difference itself
days_until_renewal(sub, t) ==
    IF sub.status = "trial"
    THEN Max(0, sub.trial_end - t)
    ELSE Max(0, sub.current_period_end - t)

NewSubscription_long_trial(user_id, plan, t) ==
    [user_id |-> user_id,
     plan |-> plan,
     status |-> IF plan = "trial" THEN "trial" ELSE "active",
     amount |-> 0,
     billing_cycle |-> "monthly",
     current_period_start |-> t,
     current_period_end |-> calculate_period_end(t, "monthly"),
     trial_end |-> t + MONTH_DAYS]

\* Subscription.__init__ as create_subscription calls it (every other
\* argument defaulted) at time t
NewSubscription(user_id, plan, t) ==
    [user_id |-> user_id,
     plan |-> plan,
     status |-> IF plan = "trial" THEN "trial" ELSE "active",
     amount |-> 0,
     billing_cycle |-> "monthly",
     current_period_start |-> t,
     current_period_end |-> calculate_period_end(t, "monthly"),
     trial_end |-> t + TRIAL_DAYS]

\* Payment.__init__ as create_payment calls it
NewPayment(user_id, subscription_id, amount) ==
    [user_id |-> user_id,
     subscription_id |-> subscription_id,
     amount |-> amount,
     status |-> "pending",
     helcim_transaction_id |-> "None",
     processed_at |-> NoTime,
     failure_reason |-> "None"]

\* ---------------------------------------------------------------- state
VARIABLES
    now,            \* datetime.utcnow(), in days
    ticks,          \* how many times the clock has advanced
    requests,       \* how many requests have been served
    subscriptions,  \* SubscriptionService.subscriptions: id -> Subscription
    payments,       \* SubscriptionService.payments: id -> Payment
    threads,        \* the requests in flight in the threaded server
    last,           \* the last read request served and what it answered
    images,         \* the images table: id -> Image
    scrape,         \* the last ingestion run: what it was given and returned
    extraction,     \* the listing block under extraction and what came of it
    users           \* UserService.users: user_id -> User

vars == <<now, ticks, requests, subscriptions, payments, threads, last,
          images, scrape, extraction, users>>

\* a Python value a feature check returns: bool, int, str or list
PyBool(b) == [t |-> "bool", truthy |-> b, n |-> 0, items |-> <<>>]
PyInt(n) == [t |-> "int", truthy |-> n # 0, n |-> n, items |-> <<>>]
PyStr(s) == [t |-> "str", truthy |-> s # "", n |-> 0, items |-> <<s>>]
PyList(l) == [t |-> "list", truthy |-> Len(l) > 0, n |-> 0, items |-> l]
PyNone == [t |-> "None", truthy |-> FALSE, n |-> 0, items |-> <<>>]

\* the response of a request that answers about one subscription
NoCall ==
    [op |-> "none", user |-> 0, feature |-> "",
     is_active |-> FALSE,    \* 'is_active' of subscription.to_dict()
     days_until_renewal |-> 0,   \* 'days_until_renewal' of to_dict()
     code |-> 0,             \* the status of a response that may refuse
     result |-> PyNone]      \* 'has_access' of a feature check

\* an idle worker thread
Idle == [pc |-> "idle", user |-> 0, plan |-> "", cycle |-> "",
         helcim_ok |-> TRUE, sub |-> 0, amount |-> 0]

\* ------------------------------------------------------ SubscriptionService
\* SubscriptionService.get_subscription_by_user: the first record of the
\* user in insertion order, 0 for None
get_subscription_by_user(subs, user_id) ==
    LET mine == {i \in 1..Len(subs) : subs[i].user_id = user_id}
    IN IF mine = {} THEN 0 ELSE CHOOSE i \in mine : \A j \in mine : i <= j

\* SubscriptionService.create_subscription with the default plan
create_subscription(subs, user_id, t) ==
    Append(subs, NewSubscription(user_id, "trial", t))

\* SubscriptionService.upgrade_subscription, lines 215-229: the features are
\* read from the subscription before its plan is assigned
upgrade_fields(sub, new_plan, billing_cycle, t) ==
    LET features == get_plan_features(sub)
        amount == PriceFor(features, billing_cycle)
    IN [sub EXCEPT !.plan = new_plan,
                   !.status = "active",
                   !.amount = amount,
                   !.billing_cycle = billing_cycle,
                   !.current_period_start = t,
                   !.current_period_end = calculate_period_end(t, billing_cycle)]

\* SubscriptionService.upgrade_subscription: (None, error) when the user has
\* no subscription; SubscriptionPlan(new_plan) raises ValueError for a string
\* that names no plan, before any field is assigned
upgrade_subscription(subs, user_id, new_plan, billing_cycle, t) ==
    LET i == get_subscription_by_user(subs, user_id)
    IN IF i = 0
       THEN [subs |-> subs, sub |-> 0, raised |-> FALSE]
       ELSE IF new_plan \notin PlanValues
       THEN [subs |-> subs, sub |-> 0, raised |-> TRUE]
       ELSE [subs |-> [subs EXCEPT ![i] = upgrade_fields(subs[i], new_plan, billing_cycle, t)],
             sub |-> i, raised |-> FALSE]

cancel_fields_zero_period(sub, t) ==
    [sub EXCEPT !.status = "cancelled", !.current_period_end = t]

\* SubscriptionService.cancel_subscription, lines 239-240
cancel_fields(sub, t) ==
    [sub EXCEPT !.status = "cancelled"]

\* SubscriptionService.cancel_subscription
cancel_subscription(subs, user_id, t) ==
    LET i == get_subscription_by_user(subs, user_id)
    IN IF i = 0
       THEN [subs |-> subs, sub |-> 0]
       ELSE [subs |-> [subs EXCEPT ![i] = cancel_fields(subs[i], t)], sub |-> i]

\* SubscriptionService.create_payment
create_payment(pays, user_id, subscription_id, amount) ==
    Append(pays, NewPayment(user_id, subscription_id, amount))

process_payment_no_activation(subs, pays, payment_id, success, t) ==
    IF payment_id \notin 1..Len(pays)
    THEN [subs |-> subs, pays |-> pays, found |-> FALSE]
    ELSE [subs |-> subs,
          pays |-> [pays EXCEPT ![payment_id].status =
                                    IF success THEN "completed" ELSE "failed",
                                ![payment_id].processed_at = t],
          found |-> TRUE]

\* SubscriptionService.process_payment
process_payment(subs, pays, payment_id, success, t) ==
    IF payment_id \notin 1..Len(pays)
    THEN [subs |-> subs, pays |-> pays, found |-> FALSE]
    ELSE IF success
    THEN LET sid == pays[payment_id].subscription_id
         IN [subs |-> IF sid \in 1..Len(subs)
                      THEN [subs EXCEPT ![sid].status = "active"]
                      ELSE subs,
             pays |-> [pays EXCEPT ![payment_id].status = "completed",
                                   ![payment_id].helcim_transaction_id = "txn",
                                   ![payment_id].processed_at = t],
             found |-> TRUE]
    ELSE [subs |-> subs,
          pays |-> [pays EXCEPT ![payment_id].status = "failed",
                                ![payment_id].failure_reason = "error",
                                ![payment_id].processed_at = t],
          found |-> TRUE]

\* SubscriptionService.check_feature_access: features.get(feature, False)
\* hands back the dict's value, whatever its type
service_check_feature_access(subs, user_id, feature, t) ==
    LET i == get_subscription_by_user(subs, user_id)
    IN IF i = 0 \/ ~is_active(subs[i], t)
       THEN PyBool(FALSE)
       ELSE LET f == get_plan_features(subs[i])
            IN CASE feature = "max_posts_per_month" -> PyInt(f.max_posts_per_month)
                 [] feature = "max_images" -> PyInt(f.max_images)
                 [] feature = "platforms" -> PyList(f.platforms)
                 [] feature = "automation" -> PyBool(f.automation)
                 [] feature = "analytics" -> PyBool(f.analytics)
                 [] feature = "support" -> PyStr(f.support)
                 [] feature = "price_monthly" -> PyInt(f.price_monthly)
                 [] feature = "price_yearly" -> PyInt(f.price_yearly)
                 [] OTHER -> PyBool(FALSE)

Contains(l, x) == \E k \in 1..Len(l) : l[k] = x

main_check_feature_access_ungated(subs, user_id, feature, t) ==
    LET i == get_subscription_by_user(subs, user_id)
    IN IF i = 0
       THEN PyBool(FALSE)
       ELSE LET f == get_plan_features(subs[i])
            IN CASE feature = "website_scraping" -> PyList(f.platforms)
                 [] feature = "bulk_generation" -> PyBool(TRUE)
                 [] feature = "automation" -> PyBool(f.automation)
                 [] feature = "analytics" -> PyBool(f.analytics)
                 [] feature = "youtube" -> PyBool(Contains(f.platforms, "youtube"))
                 [] feature = "dms_integration" -> PyBool(TRUE)
                 [] feature = "unlimited_posts" -> PyBool(f.max_posts_per_month = -1)
                 [] feature = "unlimited_images" -> PyBool(f.max_images = -1)
                 [] OTHER -> PyBool(FALSE)

\* main_complete.check_feature_access for an authenticated user
main_check_feature_access(subs, user_id, feature, t) ==
    LET i == get_subscription_by_user(subs, user_id)
    IN IF i = 0 \/ ~is_active(subs[i], t)
       THEN PyBool(FALSE)
       ELSE LET f == get_plan_features(subs[i])
            IN CASE feature = "website_scraping" -> PyList(f.platforms)
                 [] feature = "bulk_generation" -> PyBool(TRUE)
                 [] feature = "automation" -> PyBool(f.automation)
                 [] feature = "analytics" -> PyBool(f.analytics)
                 [] feature = "youtube" -> PyBool(Contains(f.platforms, "youtube"))
                 [] feature = "dms_integration" -> PyBool(TRUE)
                 [] feature = "unlimited_posts" -> PyBool(f.max_posts_per_month = -1)
                 [] feature = "unlimited_images" -> PyBool(f.max_images = -1)
                 [] OTHER -> PyBool(FALSE)

\* the default of get_user_platform_access
DefaultPlatforms == <<"facebook", "instagram">>

get_user_platform_access_ungated(subs, user_id, t) ==
    LET i == IF user_id = 0 THEN 0 ELSE get_subscription_by_user(subs, user_id)
    IN IF i = 0 THEN DefaultPlatforms ELSE get_plan_features(subs[i]).platforms

\* main_complete.get_user_platform_access; user_id 0 is the user None
get_user_platform_access(subs, user_id, t) ==
    IF user_id = 0
    THEN DefaultPlatforms
    ELSE LET i == get_subscription_by_user(subs, user_id)
         IN IF i = 0 \/ ~is_active(subs[i], t)
            THEN DefaultPlatforms
            ELSE get_plan_features(subs[i]).platforms

\* [p for p in platforms if p in allowed_platforms]
FilterAllowed(platforms, allowed) == SelectSeq(platforms, LAMBDA p : Contains(allowed, p))

\* ------------------------------------------------------------ image store
\* the dealerships (tenants) and the vehicles (one identity: VIN, stock
\* number or year/make/model) images are stored for
Dealerships == {1, 2}
Vehicles == {1, 2}

\* what fetching one image URL and storing it meets: an image file and a
\* database that commits, a failed download, bytes that are no image file,
\* or an image file and a database that commits the insert of save_image
\* and raises on the commit that follows
Outcomes == {"ok", "download_fails", "invalid", "commit_fails"}

\* 'for i, image_url in enumerate(vehicle_data['images'][:5])'
IMAGE_LIMIT == 5

Min(a, b) == IF a <= b THEN a ELSE b

\* Image(...) as save_image builds it: is_primary defaults to False and
\* source_url to None (0)
NewImage(dealership_id, vehicle, source_type) ==
    [dealership_id |-> dealership_id,
     vehicle |-> vehicle,
     source_type |-> source_type,
     source_url |-> 0,
     is_primary |-> FALSE]

\* a werkzeug FileStorage of an upload: it has a filename; acceptable says
\* that the extension is allowed, the size is within MAX_FILE_SIZE, PIL
\* opens the bytes and the commit goes through
FileStorage(acceptable) == [has_filename |-> TRUE, acceptable |-> acceptable]

\* the file object the ingestion builds, BytesIO(response.content) with the
\* attribute 'name' set: it has no attribute 'filename'
BytesIO(outcome) ==
    [has_filename |-> FALSE, acceptable |-> outcome \in {"ok", "commit_fails"}]

\* save_image without the read of file.filename
save_image_any_file(imgs, file, dealership_id, vehicle, source_type) ==
    IF ~file.acceptable
    THEN [images |-> imgs, record |-> 0, message |-> "rejected"]
    ELSE [images |-> Append(imgs, NewImage(dealership_id, vehicle, source_type)),
          record |-> Len(imgs) + 1, message |-> "Image uploaded successfully"]

\* ImageService.save_image: validate_image reads file.filename first, which
\* raises AttributeError on a file object without that attribute; the
\* except clause of save_image turns every exception into (None, message)
save_image(imgs, file, dealership_id, vehicle, source_type) ==
    IF ~file.has_filename
    THEN [images |-> imgs, record |-> 0, message |-> "Error saving image"]
    ELSE IF ~file.acceptable
    THEN [images |-> imgs, record |-> 0, message |-> "rejected"]
    ELSE [images |-> Append(imgs, NewImage(dealership_id, vehicle, source_type)),
          record |-> Len(imgs) + 1, message |-> "Image uploaded successfully"]

\* the body of the loop over the image URLs of one vehicle, for the URL at
\* position k (enumerate's i is k - 1): download, save, flag, count
ingest_image(acc, k, outcome, dealership_id, vehicle, source_type) ==
    IF outcome = "download_fails"
    THEN \* raise_for_status or the request raises: "Image k from url: e"
         [acc EXCEPT !.errors = Append(@, [kind |-> "download", index |-> k])]
    ELSE LET saved == save_image(acc.images, BytesIO(outcome), dealership_id,
                                 vehicle, source_type)
         IN IF saved.record # 0 /\ outcome = "commit_fails"
            THEN \* the commit of line 341 raises: the record stays as
                 \* save_image committed it, and the except clause of the
                 \* image records "Image k from url: e"
                 [acc EXCEPT !.images = saved.images,
                             !.errors = Append(@, [kind |-> "download",
                                                   index |-> k])]
            ELSE IF saved.record # 0
            THEN [acc EXCEPT
                    !.images = [saved.images EXCEPT
                                  ![saved.record].source_url = k,
                                  ![saved.record].is_primary = (k = 1)],
                    !.saved_count = @ + 1]
            ELSE \* "Image k: save_message"
                 [acc EXCEPT !.errors = Append(@, [kind |-> "save", index |-> k])]

RECURSIVE ingest_from(_, _, _, _, _, _)
\* the loop over urls from position k on
ingest_from(acc, k, urls, dealership_id, vehicle, source_type) ==
    IF k > Len(urls)
    THEN acc
    ELSE ingest_from(ingest_image(acc, k, urls[k], dealership_id, vehicle,
                                  source_type),
                     k + 1, urls, dealership_id, vehicle, source_type)

\* ScrapingService._save_scraped_vehicle_images: urls holds what each image
\* URL of the listing gives
save_scraped_vehicle_images(imgs, urls, dealership_id, vehicle) ==
    ingest_from([images |-> imgs, saved_count |-> 0, errors |-> <<>>], 1,
                SubSeq(urls, 1, Min(IMAGE_LIMIT, Len(urls))),
                dealership_id, vehicle, "scraping")

\* DMSService._sync_vehicle_images: every image URL of the vehicle
sync_vehicle_images(imgs, urls, dealership_id, vehicle) ==
    ingest_from([images |-> imgs, saved_count |-> 0, errors |-> <<>>], 1,
                urls, dealership_id, vehicle, "dms")

\* ImageService.get_image_by_id
get_image_by_id(imgs, image_id, dealership_id) ==
    IF image_id \in 1..Len(imgs) /\ imgs[image_id].dealership_id = dealership_id
    THEN image_id ELSE 0

\* the 'metadata' of a PUT: the keys it holds and their values
NoMetadata ==
    [has_is_primary |-> FALSE, is_primary |-> FALSE,
     has_vehicle |-> FALSE, vehicle |-> 1]

MetadataInputs ==
    {NoMetadata}
    \cup {[NoMetadata EXCEPT !.has_is_primary = TRUE, !.is_primary = b] :
            b \in BOOLEAN}
    \cup {[NoMetadata EXCEPT !.has_vehicle = TRUE, !.vehicle = v] :
            v \in Vehicles}

\* ImageService.update_image_metadata: the table it leaves
update_image_metadata(imgs, image_id, metadata, dealership_id) ==
    LET i == get_image_by_id(imgs, image_id, dealership_id)
    IN IF i = 0
       THEN imgs
       ELSE [imgs EXCEPT
               ![i].vehicle = IF metadata.has_vehicle THEN metadata.vehicle ELSE @,
               ![i].is_primary = IF metadata.has_is_primary
                                 THEN metadata.is_primary ELSE @]

\* ------------------------------------------------------------ orchestrator
\* 'for inventory_url in inventory_urls[:5]'
PAGE_LIMIT == 5

\* a dealership website as the run meets it.  Its pages are the root (0)
\* and the inventory pages 1..n_pages that find_inventory_pages finds;
\* failing is the page whose fetch or parse raises (NoPage: none); every page
\* that loads holds the same listings, each with the image URLs urls
NoPage == -1
NoSite ==
    [platform |-> "", n_pages |-> 0, failing |-> NoPage, listings |-> 0,
     urls |-> <<>>]

\* 'max_vehicles' as the request's JSON holds it: an integer or a string
IntValue(n) == [json |-> "int", n |-> n]
StringValue == [json |-> "string", n |-> 0]

\* ScrapingService.find_inventory_pages: the URLs found, [] when none is
\* found or the request fails
find_inventory_pages(site) == [k \in 1..site.n_pages |-> k]

\* ScrapingService.scrape_vehicle_listings: the listings of a page, [] when
\* the page has none and, by the except clause, when its fetch or parse fails
scrape_vehicle_listings(site, page) ==
    IF page = site.failing
    THEN <<>>
    ELSE [j \in 1..site.listings |-> [vehicle |-> j, images |-> site.urls]]

\* Python's vehicles[:n] for an integer n
SliceTo(l, n) ==
    IF n >= 0
    THEN SubSeq(l, 1, Min(n, Len(l)))
    ELSE SubSeq(l, 1, Max(0, Len(l) + n))

\* where an exception that is no failure of an image or a page is raised
\* (MemoryError, say): nowhere; outside the loop over the pages, before or
\* after it; or inside the try of a listing, by the call that ingests it
\* before anything is counted or by the rate limiting after the counts
Faults ==
    {"none", "before_pages", "after_pages", "vehicle_call", "vehicle_sleep"}

\* lines 285-287: the except clause of a listing
vehicle_error(acc, j) ==
    [acc EXCEPT !.error_count = @ + 1,
                !.errors = Append(@, [kind |-> "vehicle", index |-> j])]

RECURSIVE run_vehicles(_, _, _, _, _)
\* lines 272-288: the loop over the listings of one page from position j on;
\* _save_scraped_vehicle_images itself catches what its images raise
run_vehicles(acc, j, vehicles, dealership_id, fault) ==
    IF j > Len(vehicles)
    THEN acc
    ELSE LET r == save_scraped_vehicle_images(acc.images, vehicles[j].images,
                                              dealership_id, vehicles[j].vehicle)
             counted ==
                [acc EXCEPT !.images = r.images,
                            !.scraped_count = @ + r.saved_count,
                            !.error_count = @ + Len(r.errors),
                            !.errors = @ \o r.errors,
                            !.attempted = Max(@, r.saved_count + Len(r.errors))]
         IN run_vehicles(
                CASE fault = "vehicle_call" -> vehicle_error(acc, j)
                  [] fault = "vehicle_sleep" -> vehicle_error(counted, j)
                  [] OTHER -> counted,
                j + 1, vehicles, dealership_id, fault)

\* run_page with an except clause that records the page and does not count
run_page_uncounted(acc, page, site, dealership_id, max_vehicles, fault) ==
    LET vehicles == scrape_vehicle_listings(site, page)
        seen == [acc EXCEPT !.pages = Append(@, page)]
    IN IF max_vehicles.json # "int"
       THEN [seen EXCEPT !.errors = Append(@, [kind |-> "page", index |-> page]),
                         !.ingested = Append(@, 0)]
       ELSE LET capped == SliceTo(vehicles, max_vehicles.n)
            IN run_vehicles([seen EXCEPT !.ingested = Append(@, Len(capped))],
                            1, capped, dealership_id, fault)

\* lines 267-294: one inventory page.  The slice raises TypeError when
\* max_vehicles is no integer, which the except clause of the page records
run_page(acc, page, site, dealership_id, max_vehicles, fault) ==
    LET vehicles == scrape_vehicle_listings(site, page)
        seen == [acc EXCEPT !.pages = Append(@, page)]
    IN IF max_vehicles.json # "int"
       THEN [seen EXCEPT !.error_count = @ + 1,
                         !.errors = Append(@, [kind |-> "page", index |-> page]),
                         !.ingested = Append(@, 0)]
       ELSE LET capped == SliceTo(vehicles, max_vehicles.n)
            IN run_vehicles([seen EXCEPT !.ingested = Append(@, Len(capped))],
                            1, capped, dealership_id, fault)

RECURSIVE run_pages(_, _, _, _, _, _, _)
\* line 267: the loop over the pages from position p on
run_pages(acc, p, pages, site, dealership_id, max_vehicles, fault) ==
    IF p > Len(pages)
    THEN acc
    ELSE run_pages(run_page(acc, pages[p], site, dealership_id, max_vehicles,
                            fault),
                   p + 1, pages, site, dealership_id, max_vehicles, fault)

\* lines 253-294 when nothing raises outside the loop over the pages
run_body(imgs, dealership_id, site, max_vehicles, fault) ==
    LET found == find_inventory_pages(site)
        inventory_urls == IF found = <<>> THEN <<0>> ELSE found
    IN run_pages([images |-> imgs, scraped_count |-> 0, error_count |-> 0,
                  errors |-> <<>>, platform |-> site.platform, raised |-> FALSE,
                  pages |-> <<>>, ingested |-> <<>>, attempted |-> 0],
                 1, SubSeq(inventory_urls, 1, Min(PAGE_LIMIT, Len(inventory_urls))),
                 site, dealership_id, max_vehicles, fault)

\* the faults no inner except clause catches
TopLevelFaults == {"before_pages", "after_pages"}

scrape_dealership_website_uncaught(imgs, dealership_id, site, max_vehicles, fault) ==
    LET done == run_body(imgs, dealership_id, site, max_vehicles, fault)
    IN IF fault \in TopLevelFaults THEN [done EXCEPT !.raised = TRUE] ELSE done

\* ScrapingService.scrape_dealership_website: the 4-tuple it returns, the
\* table it leaves, and the pages, listings and images it went through
scrape_dealership_website(imgs, dealership_id, site, max_vehicles, fault) ==
    LET done == run_body(imgs, dealership_id, site, max_vehicles, fault)
        caught == [scraped_count |-> 0, error_count |-> 1,
                   errors |-> <<[kind |-> "website", index |-> 0]>>,
                   platform |-> "unknown", raised |-> FALSE]
    IN CASE fault = "before_pages" ->
              caught @@ [images |-> imgs, pages |-> <<>>, ingested |-> <<>>,
                         attempted |-> 0]
         [] fault = "after_pages" ->
              caught @@ [images |-> done.images, pages |-> done.pages,
                         ingested |-> done.ingested, attempted |-> done.attempted]
         [] OTHER -> done

\* no ingestion has run
NoRun ==
    [op |-> "none", dealership_id |-> 0, vehicle |-> 0, urls |-> <<>>,
     site |-> NoSite, max_vehicles |-> IntValue(0), fault |-> "none",
     raised |-> FALSE, saved_count |-> 0, error_count |-> 0, errors |-> <<>>,
     platform |-> "", pages |-> <<>>, ingested |-> <<>>, attempted |-> 0,
     before |-> 0]

\* ------------------------------------------------------- listing extractor
\* the characters of a block's text: digits, a letter, a blank
Chars == {"1", "9", "2", "0", "a", " "}
Digits == {"1", "9", "2", "0"}

\* \w of the re module: letters, digits and the underscore
IsWord(c) == c # " "

\* r'\b(19|20)\d{2}\b' matches at position i of text
YearAt(text, i) ==
    /\ i + 3 <= Len(text)
    /\ <<text[i], text[i + 1]>> \in {<<"1", "9">>, <<"2", "0">>}
    /\ text[i + 2] \in Digits
    /\ text[i + 3] \in Digits
    /\ i = 1 \/ ~IsWord(text[i - 1])
    /\ i + 3 = Len(text) \/ ~IsWord(text[i + 4])

\* re.search(r'\b(19|20)\d{2}\b', text_content): the leftmost match, <<>>
\* for None
year_search(text) ==
    LET hits == {i \in 1..Len(text) : YearAt(text, i)}
    IN IF hits = {}
       THEN <<>>
       ELSE LET i == CHOOSE h \in hits : \A g \in hits : h <= g
            IN SubSeq(text, i, i + 3)

\* an img tag of the block: whether it has a src (or data-src, data-lazy),
\* whether urljoin raises ValueError on it (an unbalanced '[' in the host),
\* and which of the patterns its src and alt text hold
ImgTags ==
    {[has_src |-> FALSE, malformed |-> FALSE, words |-> {}]}
    \cup {[has_src |-> TRUE, malformed |-> m, words |-> w] :
            m \in BOOLEAN, w \in SUBSET {"car", "logo"}}

\* ScrapingService._is_vehicle_image: the exclude patterns are looked at
\* first, then the vehicle patterns, and the default is True
is_vehicle_image(tag) ==
    IF "logo" \in tag.words
    THEN FALSE
    ELSE IF "car" \in tag.words
    THEN TRUE
    ELSE TRUE

\* the first <a href> of the block
Links == {"none", "ok", "malformed"}

\* the positions of the img tags whose URL is appended to 'images'
AcceptedImages(imgs) ==
    SelectSeq([k \in 1..Len(imgs) |-> k],
              LAMBDA k : imgs[k].has_src /\ is_vehicle_image(imgs[k]))

extract_vehicle_data_year_only(block) ==
    LET year == year_search(block.text)
        raises == \/ \E k \in 1..Len(block.imgs) :
                        block.imgs[k].has_src /\ block.imgs[k].malformed
                  \/ block.link = "malformed"
    IN IF raises
       THEN [listing |-> FALSE, year |-> <<>>, images |-> <<>>, swallowed |-> TRUE]
       ELSE IF year # <<>>
       THEN [listing |-> TRUE, year |-> year,
             images |-> AcceptedImages(block.imgs), swallowed |-> FALSE]
       ELSE [listing |-> FALSE, year |-> <<>>, images |-> <<>>, swallowed |-> FALSE]

\* ScrapingService._extract_vehicle_data: urljoin is applied to the src of
\* every img tag before the filter and to the href of the detail link; a
\* ValueError it raises is caught by the except clause, which returns None
extract_vehicle_data(block) ==
    LET accepted == AcceptedImages(block.imgs)
        year == year_search(block.text)
        raises == \/ \E k \in 1..Len(block.imgs) :
                        block.imgs[k].has_src /\ block.imgs[k].malformed
                  \/ block.link = "malformed"
    IN IF raises
       THEN [listing |-> FALSE, year |-> <<>>, images |-> <<>>, swallowed |-> TRUE]
       ELSE IF year # <<>> /\ accepted # <<>>
       THEN [listing |-> TRUE, year |-> year, images |-> accepted,
             swallowed |-> FALSE]
       ELSE [listing |-> FALSE, year |-> <<>>, images |-> <<>>, swallowed |-> FALSE]

\* no block has been extracted
NoExtraction ==
    [op |-> "none", text |-> <<>>, imgs |-> <<>>, link |-> "none",
     listing |-> FALSE, year |-> <<>>, images |-> <<>>, swallowed |-> FALSE,
     vehicles |-> 0]

\* ------------------------------------------------------------ UserService
\* User.__init__ as create_user calls it at time t
NewUser(t) ==
    [subscription_plan |-> "trial",
     subscription_status |-> "trial",
     created_at |-> t,
     last_login |-> NoTime,
     trial_end_date |-> t + TRIAL_DAYS]

\* User.is_trial_expired
is_trial_expired(user, t) ==
    IF user.subscription_status # "trial" THEN FALSE ELSE t > user.trial_end_date

\* ------------------------------------------------------------------ Init
Init ==
    /\ now = 0
    /\ ticks = 0
    /\ requests = 0
    /\ subscriptions = <<>>
    /\ payments = <<>>
    /\ threads = [t \in 1..NumThreads |-> Idle]
    /\ last = NoCall
    /\ images = <<>>
    /\ scrape = NoRun
    /\ extraction = NoExtraction
    /\ users = [u \in Users |-> NewUser(0)]

\* one more request has been served
Served ==
    /\ requests < MaxRequests
    /\ requests' = requests + 1

\* --------------------------------------------------- routes/payments.py
\* lines 205-209 and 250-252: create a trial subscription if none exists;
\* sub is the record the handler goes on with
GetOrCreate(subs, user_id, t) ==
    LET i == get_subscription_by_user(subs, user_id)
    IN IF i = 0
       THEN [subs |-> create_subscription(subs, user_id, t),
             sub |-> Len(subs) + 1, created |-> TRUE]
       ELSE [subs |-> subs, sub |-> i, created |-> FALSE]

\* GET /subscription: the store it leaves and the response it sends
get_current_subscription_result(subs, u, t) ==
    LET g == GetOrCreate(subs, u, t)
    IN [subs |-> g.subs, sub |-> g.sub, created |-> g.created, code |-> 200,
        is_active |-> is_active(g.subs[g.sub], t),
        days_until_renewal |-> days_until_renewal(g.subs[g.sub], t)]

get_current_subscription(u) ==
    /\ Served
    /\ subscriptions' = get_current_subscription_result(subscriptions, u, now).subs
    /\ UNCHANGED <<now, ticks, payments, threads, last,
                   images, scrape, extraction, users>>

\* POST /subscription/upgrade, lines 254-307, on the subscription at index
\* i: temp_subscription is the stored record itself, so the assignment of
\* its plan is a write to the store
upgrade_request_body(subs, pays, i, u, plan, cycle, helcim_ok) ==
    LET subs2 == [subs EXCEPT ![i].plan = plan]
        amount == PriceFor(get_plan_features(subs2[i]), cycle)
    IN IF amount = 0
       THEN [subs |-> subs2, pays |-> pays, code |-> 400]
       ELSE IF ~helcim_ok
       THEN [subs |-> subs2, pays |-> pays, code |-> 500]
       ELSE [subs |-> subs2, pays |-> create_payment(pays, u, i, amount),
             code |-> 200]

\* POST /subscription/upgrade: the stores it leaves and the status it sends
upgrade_request_result(subs, pays, u, plan, cycle, helcim_ok, t) ==
    IF plan \notin PlanValues
    THEN \* lines 234-247: no plan, or SubscriptionPlan(plan) raises ValueError
         [subs |-> subs, pays |-> pays, code |-> 400, created |-> FALSE]
    ELSE LET g == GetOrCreate(subs, u, t)
             r == upgrade_request_body(g.subs, pays, g.sub, u, plan, cycle, helcim_ok)
         IN [subs |-> r.subs, pays |-> r.pays, code |-> r.code,
             created |-> g.created]

upgrade_request(u, plan, cycle, helcim_ok) ==
    LET r == upgrade_request_result(subscriptions, payments, u, plan, cycle,
                                    helcim_ok, now)
    IN /\ Served
       /\ Len(r.pays) <= MaxPayments
       /\ subscriptions' = r.subs
       /\ payments' = r.pays
       /\ UNCHANGED <<now, ticks, threads, last,
                      images, scrape, extraction, users>>

\* POST /payment/confirm: the stores it leaves, the status it sends and
\* whether upgrade_subscription returned a subscription
confirm_payment_result(subs, pays, u, pid, plan, cycle, helcim_ok, t) ==
    IF plan = ""
    THEN \* line 329: a required field is missing
         [subs |-> subs, pays |-> pays, code |-> 400, upgraded |-> FALSE]
    ELSE IF ~helcim_ok
    THEN \* lines 338-349
         LET pp == process_payment(subs, pays, pid, FALSE, t)
         IN [subs |-> pp.subs, pays |-> pp.pays, code |-> 400, upgraded |-> FALSE]
    ELSE \* lines 351-376
         LET pp == process_payment(subs, pays, pid, TRUE, t)
             up == upgrade_subscription(pp.subs, u, plan, cycle, t)
         IN [subs |-> up.subs, pays |-> pp.pays,
             \* 500: ValueError, "No subscription found", or payment is None
             \* and payment.to_dict() raises
             code |-> IF up.sub = 0 \/ ~pp.found THEN 500 ELSE 200,
             upgraded |-> up.sub # 0]

confirm_payment(u, pid, plan, cycle, helcim_ok) ==
    LET r == confirm_payment_result(subscriptions, payments, u, pid, plan,
                                    cycle, helcim_ok, now)
    IN /\ Served
       /\ subscriptions' = r.subs
       /\ payments' = r.pays
       /\ UNCHANGED <<now, ticks, threads, last,
                      images, scrape, extraction, users>>

\* POST /subscription/cancel: the store it leaves and the response it sends
cancel_route_result(subs, u, t) ==
    LET r == cancel_subscription(subs, u, t)
    IN IF r.sub = 0
       THEN [subs |-> r.subs, sub |-> 0, code |-> 400, is_active |-> FALSE]
       ELSE [subs |-> r.subs, sub |-> r.sub, code |-> 200,
             is_active |-> is_active(r.subs[r.sub], t)]

cancel_route(u) ==
    /\ Served
    /\ subscriptions' = cancel_route_result(subscriptions, u, now).subs
    /\ UNCHANGED <<now, ticks, payments, threads, last,
                   images, scrape, extraction, users>>

\* a day passes
Tick ==
    /\ ticks < MaxTicks
    /\ now' = now + 1
    /\ ticks' = ticks + 1
    /\ UNCHANGED <<requests, subscriptions, payments, threads, last,
                   images, scrape, extraction, users>>

Next ==
    \/ \E u \in Users : get_current_subscription(u)
    \/ \E u \in Users, plan \in PlanInputs, cycle \in CycleInputs, ok \in BOOLEAN :
         upgrade_request(u, plan, cycle, ok)
    \/ \E u \in Users, pid \in 1..(Len(payments) + 1), plan \in PlanInputs,
          cycle \in CycleInputs, ok \in BOOLEAN :
         confirm_payment(u, pid, plan, cycle, ok)
    \/ \E u \in Users : cancel_route(u)
    \/ Tick

Spec == Init /\ [][Next]_vars

\* ------------------------------------------------------------ the reads
\* The requests that answer from Subscription.is_active and the plan's
\* features, on any Subscription the class can hold: Subscription.__init__
\* takes every plan, status and billing cycle.  The record was created at
\* time 0; from there the clock jumps.
DrawnSubscriptions ==
    {[NewSubscription(1, "trial", 0) EXCEPT
          !.plan = p, !.status = st, !.billing_cycle = c,
          !.amount = PriceFor(PlanFeatures(p), c),
          !.current_period_end = calculate_period_end(0, c)] :
       p \in PlanValues, st \in StatusValues, c \in CycleInputs}

InitReads ==
    /\ now = 0
    /\ ticks = 0
    /\ requests = 0
    /\ subscriptions \in {<<>>} \cup {<<s>> : s \in DrawnSubscriptions}
    /\ payments = <<>>
    /\ threads = [t \in 1..NumThreads |-> Idle]
    /\ last = NoCall
    /\ images = <<>>
    /\ scrape = NoRun
    /\ extraction = NoExtraction
    /\ users = [u \in Users |-> NewUser(0)]

\* GET /subscription of a user who has a subscription, answering with
\* subscription.to_dict() (the user who has none is served in Spec)
read_subscription(u) ==
    LET r == get_current_subscription_result(subscriptions, u, now)
    IN /\ get_subscription_by_user(subscriptions, u) # 0
       /\ subscriptions' = r.subs
       /\ last' = [NoCall EXCEPT !.op = "get_subscription", !.user = u,
                                 !.is_active = r.is_active,
                                 !.days_until_renewal = r.days_until_renewal]
       /\ UNCHANGED <<now, ticks, requests, payments, threads,
                      images, scrape, extraction, users>>

\* the feature names a caller asks about: the gate's table, keys of the
\* features dict, and a name in neither
FeatureNames ==
    {"website_scraping", "bulk_generation", "automation", "analytics", "youtube",
     "dms_integration", "unlimited_posts", "unlimited_images",
     "platforms", "max_posts_per_month", "price_monthly", "support", "teleport"}

\* GET /feature-access/<feature> (routes/payments.py)
feature_access_route(u, feature) ==
    /\ last' = [NoCall EXCEPT !.op = "feature_access", !.user = u,
                              !.feature = feature,
                              !.result = service_check_feature_access(
                                             subscriptions, u, feature, now)]
    /\ UNCHANGED <<now, ticks, requests, subscriptions, payments, threads,
                   images, scrape, extraction, users>>

\* GET /api/feature-check/<feature> (main_complete.py)
check_feature_endpoint(u, feature) ==
    /\ last' = [NoCall EXCEPT !.op = "feature_check", !.user = u,
                              !.feature = feature,
                              !.result = main_check_feature_access(
                                             subscriptions, u, feature, now)]
    /\ UNCHANGED <<now, ticks, requests, subscriptions, payments, threads,
                   images, scrape, extraction, users>>

\* the 'platforms' a bulk generation request names
RequestedPlatforms == {DefaultPlatforms, <<"youtube">>, <<"x", "youtube">>}

\* POST /api/content/generate-bulk (main_complete.py), lines 95-127: the
\* platforms the user may post to, and 403 when none of the requested ones
\* is among them
generate_bulk_content(u, platforms) ==
    LET allowed_platforms == get_user_platform_access(subscriptions, u, now)
    IN /\ last' = [NoCall EXCEPT
                     !.op = "generate_bulk", !.user = u,
                     !.code = IF FilterAllowed(platforms, allowed_platforms) = <<>>
                              THEN 403 ELSE 200,
                     !.result = PyList(allowed_platforms)]
       /\ UNCHANGED <<now, ticks, requests, subscriptions, payments, threads,
                      images, scrape, extraction, users>>

\* the clock advances by d days; the last answer is then out of date
Jump(d) ==
    /\ ticks < MaxJumps
    /\ now' = now + d
    /\ ticks' = ticks + 1
    /\ last' = NoCall
    /\ UNCHANGED <<requests, subscriptions, payments, threads,
                   images, scrape, extraction, users>>

NextReads ==
    \/ \E u \in Users : read_subscription(u)
    \/ \E u \in Users, f \in FeatureNames : feature_access_route(u, f)
    \/ \E u \in Users, f \in FeatureNames : check_feature_endpoint(u, f)
    \/ \E u \in Users, ps \in RequestedPlatforms : generate_bulk_content(u, ps)
    \/ \E d \in JumpSteps : Jump(d)

SpecReads == InitReads /\ [][NextReads]_vars

\* ------------------------------------------------- the threaded server
\* app.run() serves each request on a thread of its own and the service
\* takes no lock, so two handlers interleave between their calls into the
\* service.  A handler that gets or creates is cut where it has looked the
\* subscription up and has not yet created it.

\* GET /subscription, line 205: the lookup
thread_get_lookup(t, u) ==
    /\ threads[t].pc = "idle"
    /\ Served
    /\ threads' = [threads EXCEPT ![t] =
                     IF get_subscription_by_user(subscriptions, u) = 0
                     THEN [Idle EXCEPT !.pc = "get_create", !.user = u]
                     ELSE Idle]
    /\ UNCHANGED <<now, ticks, subscriptions, payments, last,
                   images, scrape, extraction, users>>

\* GET /subscription, line 209: no subscription was found
thread_get_create(t) ==
    /\ threads[t].pc = "get_create"
    /\ subscriptions' = create_subscription(subscriptions, threads[t].user, now)
    /\ threads' = [threads EXCEPT ![t] = Idle]
    /\ UNCHANGED <<now, ticks, requests, payments, last,
                   images, scrape, extraction, users>>

\* POST /subscription/upgrade, lines 231-250: validation and the lookup
thread_upgrade_lookup(t, u, plan, cycle, helcim_ok) ==
    /\ threads[t].pc = "idle"
    /\ Served
    /\ threads' = [threads EXCEPT ![t] =
                     IF plan \notin PlanValues
                     THEN Idle
                     ELSE LET i == get_subscription_by_user(subscriptions, u)
                          IN [pc |-> IF i = 0 THEN "upgrade_create" ELSE "upgrade_body",
                              user |-> u, plan |-> plan, cycle |-> cycle,
                              helcim_ok |-> helcim_ok, sub |-> i, amount |-> 0]]
    /\ UNCHANGED <<now, ticks, subscriptions, payments, last,
                   images, scrape, extraction, users>>

\* POST /subscription/upgrade, line 252: no subscription was found
thread_upgrade_create(t) ==
    /\ threads[t].pc = "upgrade_create"
    /\ subscriptions' = create_subscription(subscriptions, threads[t].user, now)
    /\ threads' = [threads EXCEPT ![t].pc = "upgrade_body",
                                  ![t].sub = Len(subscriptions) + 1]
    /\ UNCHANGED <<now, ticks, requests, payments, last,
                   images, scrape, extraction, users>>

\* POST /subscription/upgrade, lines 254-307
thread_upgrade_body(t) ==
    /\ threads[t].pc = "upgrade_body"
    /\ LET c == threads[t]
           r == upgrade_request_body(subscriptions, payments, c.sub, c.user,
                                     c.plan, c.cycle, c.helcim_ok)
       IN /\ Len(r.pays) <= MaxPayments
          /\ subscriptions' = r.subs
          /\ payments' = r.pays
    /\ threads' = [threads EXCEPT ![t] = Idle]
    /\ UNCHANGED <<now, ticks, requests, last,
                   images, scrape, extraction, users>>

NextThreads ==
    \/ \E t \in 1..NumThreads, u \in Users : thread_get_lookup(t, u)
    \/ \E t \in 1..NumThreads : thread_get_create(t)
    \/ \E t \in 1..NumThreads, u \in Users, plan \in PlanInputs,
          cycle \in CycleInputs, ok \in BOOLEAN :
         thread_upgrade_lookup(t, u, plan, cycle, ok)
    \/ \E t \in 1..NumThreads : thread_upgrade_create(t)
    \/ \E t \in 1..NumThreads : thread_upgrade_body(t)

SpecThreads == Init /\ [][NextThreads]_vars

\* ------------------------------------------------------ routes/auth.py
\* POST /login with the email and the password of user u: authenticate_user
\* notes the login, and a user whose trial has expired is answered 402
login(u) ==
    /\ users' = [users EXCEPT ![u].last_login = now]
    /\ last' = [NoCall EXCEPT
                  !.op = "login", !.user = u,
                  !.code = IF /\ is_trial_expired(users[u], now)
                              /\ users[u].subscription_status = "trial"
                           THEN 402 ELSE 200]
    /\ UNCHANGED <<now, ticks, requests, subscriptions, payments, threads,
                   images, scrape, extraction>>

\* the payment flow with a provider that accepts (the confirmation sends
\* the plan the upgrade request asked for), logins, and the days between
NextLogin ==
    \/ \E u \in Users, plan \in PlanValues, cycle \in CycleInputs :
         upgrade_request(u, plan, cycle, TRUE)
    \/ \E u \in Users, pid \in 1..Len(payments), cycle \in CycleInputs :
         confirm_payment(u, pid, subscriptions[payments[pid].subscription_id].plan,
                         cycle, TRUE)
    \/ \E u \in Users : login(u)
    \/ \E d \in JumpSteps : Jump(d)

SpecLogin == Init /\ [][NextLogin]_vars

\* ------------------------------------------------- concurrent upgrades
\* SubscriptionService.upgrade_subscription as POST /payment/confirm calls
\* it on two threads for one tenant: the service takes no lock, so a thread
\* may be preempted between any two of the assignments of lines 223-228.

\* the subscription the tenant holds when the two calls arrive
UpgradeStart == NewSubscription(1, "trial", 0)

InitUpgrades ==
    /\ now = 0
    /\ ticks = 0
    /\ requests = 0
    /\ subscriptions = <<UpgradeStart>>
    /\ payments = <<>>
    /\ threads = [t \in 1..NumThreads |-> Idle]
    /\ last = NoCall
    /\ images = <<>>
    /\ scrape = NoRun
    /\ extraction = NoExtraction
    /\ users = [u \in Users |-> NewUser(0)]

\* lines 211-220: the lookup, and the amount read from the features of the
\* plan the record holds at that moment
thread_upgrade_subscription_begin(t, u, new_plan, billing_cycle) ==
    /\ threads[t].pc = "idle"
    /\ get_subscription_by_user(subscriptions, u) # 0
    /\ LET i == get_subscription_by_user(subscriptions, u)
       IN threads' = [threads EXCEPT ![t] =
                        [Idle EXCEPT !.pc = "plan", !.user = u, !.sub = i,
                                     !.plan = new_plan, !.cycle = billing_cycle,
                                     !.amount = PriceFor(get_plan_features(subscriptions[i]),
                                                         billing_cycle)]]
    /\ UNCHANGED <<now, ticks, requests, subscriptions, payments, last,
                   images, scrape, extraction, users>>

\* the assignment after the one named
AfterAssignment(pc) ==
    CASE pc = "plan" -> "status"
      [] pc = "status" -> "amount"
      [] pc = "amount" -> "billing_cycle"
      [] pc = "billing_cycle" -> "current_period_start"
      [] pc = "current_period_start" -> "current_period_end"
      [] pc = "current_period_end" -> "done"

\* lines 223-228: the next assignment of the call on thread t;
\* _calculate_period_end reads the start and the cycle the record holds
thread_upgrade_subscription_assign(t) ==
    /\ threads[t].pc \in {"plan", "status", "amount", "billing_cycle",
                          "current_period_start", "current_period_end"}
    /\ LET c == threads[t]
           sub == subscriptions[c.sub]
       IN subscriptions' = [subscriptions EXCEPT ![c.sub] =
            CASE c.pc = "plan" -> [sub EXCEPT !.plan = c.plan]
              [] c.pc = "status" -> [sub EXCEPT !.status = "active"]
              [] c.pc = "amount" -> [sub EXCEPT !.amount = c.amount]
              [] c.pc = "billing_cycle" -> [sub EXCEPT !.billing_cycle = c.cycle]
              [] c.pc = "current_period_start" ->
                   [sub EXCEPT !.current_period_start = now]
              [] c.pc = "current_period_end" ->
                   [sub EXCEPT !.current_period_end =
                        calculate_period_end(sub.current_period_start,
                                             sub.billing_cycle)]]
    /\ threads' = [threads EXCEPT ![t].pc = AfterAssignment(@)]
    /\ UNCHANGED <<now, ticks, requests, payments, last,
                   images, scrape, extraction, users>>

NextUpgrades ==
    \/ \E t \in 1..NumThreads, plan \in PlanValues, cycle \in CycleInputs :
         thread_upgrade_subscription_begin(t, 1, plan, cycle)
    \/ \E t \in 1..NumThreads : thread_upgrade_subscription_assign(t)

SpecUpgrades == InitUpgrades /\ [][NextUpgrades]_vars

\* ------------------------------------------------- images and ingestion
\* every sequence over S of length at most n
SeqsUpTo(S, n) == UNION {[1..k -> S] : k \in 0..n}

\* the image URLs of one listing, as what each of them gives: every mix of
\* outcomes for a short listing, and listings of images that are all fine
\* also longer than IMAGE_LIMIT
UrlLists ==
    SeqsUpTo(Outcomes, MaxMixed)
    \cup {[k \in 1..n |-> "ok"] : n \in 1..(IMAGE_LIMIT + MaxBeyond)}

\* the listings ingested between uploads and updates
ShortUrlLists == SeqsUpTo({"ok", "download_fails"}, 2)

RECURSIVE upload_from(_, _, _, _, _)
\* POST /api/images/upload, lines 61-73: save_image for each file in turn
upload_from(imgs, k, files, dealership_id, vehicle) ==
    IF k > Len(files)
    THEN imgs
    ELSE upload_from(save_image(imgs, files[k], dealership_id, vehicle,
                                "upload").images,
                     k + 1, files, dealership_id, vehicle)

\* the files of one upload request
UploadInputs == {fs \in SeqsUpTo({FileStorage(b) : b \in BOOLEAN}, 2) : Len(fs) > 0}

\* POST /api/images/upload
upload_images(dealership_id, vehicle, files) ==
    LET after == upload_from(images, 1, files, dealership_id, vehicle)
    IN /\ Len(after) <= MaxImages
       /\ images' = after
       /\ UNCHANGED <<now, ticks, requests, subscriptions, payments, threads,
                      last, scrape, extraction, users>>

\* PUT /api/images/<image_id>
update_image_metadata_route(image_id, dealership_id, metadata) ==
    /\ images' = update_image_metadata(images, image_id, metadata, dealership_id)
    /\ UNCHANGED <<now, ticks, requests, subscriptions, payments, threads,
                   last, scrape, extraction, users>>

\* what one run over the images of a vehicle was given and returned
IngestRun(op, dealership_id, vehicle, urls, r) ==
    [NoRun EXCEPT !.op = op, !.dealership_id = dealership_id,
                  !.vehicle = vehicle, !.urls = urls,
                  !.saved_count = r.saved_count, !.errors = r.errors,
                  !.error_count = Len(r.errors), !.before = Len(images)]

\* a call of ScrapingService._save_scraped_vehicle_images
scrape_vehicle_images(dealership_id, vehicle, urls) ==
    LET r == save_scraped_vehicle_images(images, urls, dealership_id, vehicle)
    IN /\ Len(r.images) <= MaxImages
       /\ images' = r.images
       /\ scrape' = IngestRun("scraping", dealership_id, vehicle, urls, r)
       /\ UNCHANGED <<now, ticks, requests, subscriptions, payments, threads, last,
                      extraction, users>>

\* a call of DMSService._sync_vehicle_images
dms_vehicle_images(dealership_id, vehicle, urls) ==
    LET r == sync_vehicle_images(images, urls, dealership_id, vehicle)
    IN /\ Len(r.images) <= MaxImages
       /\ images' = r.images
       /\ scrape' = IngestRun("dms", dealership_id, vehicle, urls, r)
       /\ UNCHANGED <<now, ticks, requests, subscriptions, payments, threads, last,
                      extraction, users>>

\* uploads, metadata updates and ingestion runs in any order
NextImages ==
    \/ \E d \in Dealerships, v \in Vehicles, fs \in UploadInputs :
         upload_images(d, v, fs)
    \/ \E id \in 1..(Len(images) + 1), d \in Dealerships, m \in MetadataInputs :
         update_image_metadata_route(id, d, m)
    \/ \E d \in Dealerships, v \in Vehicles, urls \in ShortUrlLists :
         scrape_vehicle_images(d, v, urls)
    \/ \E d \in Dealerships, v \in Vehicles, urls \in ShortUrlLists :
         dms_vehicle_images(d, v, urls)

SpecImages == Init /\ [][NextImages]_vars

\* the listings a website shows: one image, a broken image before a good
\* one, more images than IMAGE_LIMIT
RunUrlLists ==
    {<<"ok">>, <<"download_fails", "ok">>,
     [k \in 1..(IMAGE_LIMIT + MaxBeyond) |-> "ok"]}

\* the websites a run is pointed at
Sites ==
    {site \in [platform : {"custom", "unknown"},
               n_pages : 0..(PAGE_LIMIT + MaxBeyond),
               failing : NoPage..(PAGE_LIMIT + MaxBeyond),
               listings : 0..MaxListings,
               urls : RunUrlLists] :
       site.failing <= site.n_pages}

\* what a request sends as 'max_vehicles' (50 when it sends none)
MaxVehiclesInputs == {IntValue(n) : n \in {-1, 0, 1, 50}} \cup {StringValue}

\* POST /api/scraping/scrape-website with a dealership_id and a website_url
scrape_website_route(dealership_id, site, max_vehicles, fault) ==
    LET r == scrape_dealership_website(images, dealership_id, site,
                                       max_vehicles, fault)
    IN /\ Len(r.images) <= MaxImages
       /\ images' = r.images
       /\ scrape' = [NoRun EXCEPT
                       !.op = "run", !.dealership_id = dealership_id,
                       !.site = site, !.max_vehicles = max_vehicles,
                       !.fault = fault, !.raised = r.raised,
                       !.saved_count = r.scraped_count,
                       !.error_count = r.error_count, !.errors = r.errors,
                       !.platform = r.platform, !.pages = r.pages,
                       !.ingested = r.ingested, !.attempted = r.attempted,
                       !.before = Len(images)]
       /\ UNCHANGED <<now, ticks, requests, subscriptions, payments, threads, last,
                      extraction, users>>

\* one ingestion run on the empty table, over every listing: a run reads
\* nothing an earlier run returned
NextIngest ==
    \/ /\ scrape = NoRun
       /\ \E d \in Dealerships, v \in Vehicles, urls \in UrlLists :
            scrape_vehicle_images(d, v, urls)
    \/ /\ scrape = NoRun
       /\ \E d \in Dealerships, v \in Vehicles, urls \in UrlLists :
            dms_vehicle_images(d, v, urls)
    \/ /\ scrape = NoRun
       /\ \E d \in Dealerships, site \in Sites, mv \in MaxVehiclesInputs,
             fault \in Faults :
            scrape_website_route(d, site, mv, fault)

SpecIngest == Init /\ [][NextIngest]_vars

\* ------------------------------------------------------ listing extraction
\* the listing blocks a page holds: every short text with no image, with a
\* photo and with a logo; and a text with a year and a text without one
\* with every short list of img tags and every detail link
Blocks(max_text, max_tags) ==
    {[text |-> t, imgs |-> i, link |-> "ok"] :
        t \in SeqsUpTo(Chars, max_text),
        i \in {<<>>,
               <<[has_src |-> TRUE, malformed |-> FALSE, words |-> {"car"}]>>,
               <<[has_src |-> TRUE, malformed |-> FALSE, words |-> {"logo"}]>>}}
    \cup {[text |-> t, imgs |-> i, link |-> l] :
            t \in {<<"2", "0", "1", "9">>, <<"a">>},
            i \in SeqsUpTo(ImgTags, max_tags), l \in Links}

\* ScrapingService.scrape_vehicle_listings, lines 120-128, on a page whose
\* selector matched one block: the block's data is appended when
\* _extract_vehicle_data returns any
extract_block(block) ==
    LET r == extract_vehicle_data(block)
    IN /\ extraction' = [op |-> "extract", text |-> block.text,
                         imgs |-> block.imgs, link |-> block.link,
                         listing |-> r.listing, year |-> r.year,
                         images |-> r.images, swallowed |-> r.swallowed,
                         vehicles |-> IF r.listing THEN 1 ELSE 0]
       /\ UNCHANGED <<now, ticks, requests, subscriptions, payments, threads,
                      last, images, scrape, users>>

NextExtract ==
    /\ extraction = NoExtraction
    /\ \E block \in Blocks(MaxText, MaxTags) : extract_block(block)

SpecExtract == Init /\ [][NextExtract]_vars


\* ---------------------------------------------------------------- claims
\* the subscription of user u, where there is one
HasSubscription(u) == get_subscription_by_user(subscriptions, u) # 0
SubscriptionOf(u) == subscriptions[get_subscription_by_user(subscriptions, u)]

\* the length of the window of a billing cycle, as the claims state it
WindowDays(cycle) == IF cycle = "yearly" THEN YEAR_DAYS ELSE MONTH_DAYS

\* inactive as the claims list it: an expired trial, cancelled, past_due,
\* expired, or active past current_period_end
ListedInactive(sub, t) ==
    \/ sub.status = "trial" /\ t > sub.trial_end
    \/ sub.status \in {"cancelled", "past_due", "expired"}
    \/ sub.status = "active" /\ t > sub.current_period_end

IsFeatureCheck(op) == op \in {"feature_access", "feature_check"}

\* C1: a feature check, through either entry point and for every feature
\* name, answers False when the user has no subscription record or the
\* subscription is inactive, whatever the plan grants.
C1_InactiveHasNoAccess ==
    IsFeatureCheck(last.op) =>
        ((~HasSubscription(last.user) \/ ListedInactive(SubscriptionOf(last.user), now))
            => last.result = PyBool(FALSE))

\* C1 witness: an enterprise subscription, active in status but past its
\* period end, is refused a feature its plan grants
C1_Witness ==
    /\ last.op = "feature_check"
    /\ last.feature = "automation"
    /\ HasSubscription(last.user)
    /\ SubscriptionOf(last.user).plan = "enterprise"
    /\ SubscriptionOf(last.user).status = "active"
    /\ now > SubscriptionOf(last.user).current_period_end
    /\ last.result = PyBool(FALSE)

\* C2: the upgrade that payment confirmation performs on an existing
\* subscription sets amount to the new plan's price for the requested cycle,
\* status to active, current_period_start to now and current_period_end to
\* 365 days later for yearly, 30 days later for monthly.
C2_UpgradeChargesNewPlan ==
    [][\A u \in Users, pid \in 1..(Len(payments) + 1), plan \in PlanValues,
          cycle \in CycleInputs :
          confirm_payment(u, pid, plan, cycle, TRUE) /\ HasSubscription(u)
          => LET after == subscriptions'[get_subscription_by_user(subscriptions, u)]
             IN /\ after.plan = plan
                /\ after.amount = PriceFor(PlanFeatures(plan), cycle)
                /\ after.status = "active"
                /\ after.billing_cycle = cycle
                /\ after.current_period_start = now
                /\ after.current_period_end = now + WindowDays(cycle)]_vars

\* C3: an upgrade to the trial plan is always refused: the upgrade request
\* answers 400, and payment confirmation with plan = trial neither upgrades
\* the subscription nor answers 200.
C3_TrialUpgradeRefused ==
    [][\A u \in Users, cycle \in CycleInputs, ok \in BOOLEAN :
          /\ upgrade_request(u, "trial", cycle, ok)
             => upgrade_request_result(subscriptions, payments, u, "trial",
                                       cycle, ok, now).code = 400
          /\ \A pid \in 1..(Len(payments) + 1) :
               confirm_payment(u, pid, "trial", cycle, ok)
               => LET r == confirm_payment_result(subscriptions, payments, u, pid,
                                                  "trial", cycle, ok, now)
                  IN ~r.upgraded /\ r.code # 200]_vars

\* C4: for a subscription whose status is trial, the is_active a response
\* reports is true exactly when now <= trial_end, and in no step in which the
\* status stays trial does is_active go from false back to true.
C4_TrialActiveUntilTrialEnd ==
    /\ [](last.op = "get_subscription" /\ SubscriptionOf(last.user).status = "trial"
            => (last.is_active <=> now <= SubscriptionOf(last.user).trial_end))
    /\ [][\A i \in 1..Len(subscriptions) :
            /\ subscriptions[i].status = "trial"
            /\ subscriptions'[i].status = "trial"
            /\ ~is_active(subscriptions[i], now)
            => ~is_active(subscriptions'[i], now')]_vars

\* C4 witness: a trial subscription is read as inactive, its trial_end passed
C4_Witness ==
    /\ last.op = "get_subscription"
    /\ SubscriptionOf(last.user).status = "trial"
    /\ now > SubscriptionOf(last.user).trial_end
    /\ ~last.is_active

\* C5: for a subscription whose status is not trial, the is_active a
\* response reports is true iff status = active and now <= current_period_end,
\* so it is false at every time for past_due, cancelled and expired; and no
\* request that calls is_active changes a record.
C5_PaidActiveWithinPeriod ==
    /\ [](last.op = "get_subscription" /\ SubscriptionOf(last.user).status # "trial"
            => LET sub == SubscriptionOf(last.user)
               IN /\ last.is_active <=>
                        (sub.status = "active" /\ now <= sub.current_period_end)
                  /\ sub.status \in {"past_due", "cancelled", "expired"}
                        => ~last.is_active)
    /\ [][last'.op = "get_subscription" \/ IsFeatureCheck(last'.op)
            => subscriptions' = subscriptions]_vars

\* C5 witness: a subscription of status active is read as inactive, its
\* current_period_end passed
C5_Witness ==
    /\ last.op = "get_subscription"
    /\ SubscriptionOf(last.user).status = "active"
    /\ now > SubscriptionOf(last.user).current_period_end
    /\ ~last.is_active

\* C6: cancel on an existing subscription sets status to cancelled, leaves
\* every other field of the record as it was, and the is_active of the
\* response is false, also when now <= current_period_end.
C6_CancelKeepsTheRest ==
    [][\A u \in Users :
          cancel_route(u) /\ HasSubscription(u)
          => LET i == get_subscription_by_user(subscriptions, u)
                 r == cancel_route_result(subscriptions, u, now)
             IN /\ subscriptions'[i] = [subscriptions[i] EXCEPT !.status = "cancelled"]
                /\ r.code = 200
                /\ ~r.is_active
                /\ ListedInactive(subscriptions'[i], now')]_vars

\* C6 witness: a cancelled subscription whose period has not ended
C6_Witness ==
    \E i \in 1..Len(subscriptions) :
        /\ subscriptions[i].status = "cancelled"
        /\ now <= subscriptions[i].current_period_end

\* C7: in every reachable state and for every existing payment, payment
\* confirmation that succeeds leaves the payment completed and the payment's
\* subscription active; one that fails leaves the payment failed and every
\* subscription as it was.
C7_PaymentOutcome ==
    \A u \in Users, pid \in 1..Len(payments), plan \in PlanInputs \ {""},
       cycle \in CycleInputs :
        LET paid == confirm_payment_result(subscriptions, payments, u, pid, plan,
                                           cycle, TRUE, now)
            declined == confirm_payment_result(subscriptions, payments, u, pid,
                                               plan, cycle, FALSE, now)
        IN /\ paid.pays[pid].status = "completed"
           /\ paid.subs[payments[pid].subscription_id].status = "active"
           /\ declined.pays[pid].status = "failed"
           /\ declined.subs = subscriptions

\* C7 witness: a completed payment whose subscription is active
C7_Witness ==
    \E pid \in 1..Len(payments) :
        /\ payments[pid].status = "completed"
        /\ subscriptions[payments[pid].subscription_id].status = "active"

\* C8: no tenant ever has more than one Subscription record in the store.
C8_OneSubscriptionPerTenant ==
    \A u \in Users :
        Cardinality({i \in 1..Len(subscriptions) : subscriptions[i].user_id = u}) <= 1

\* C9: in every state current_period_end = current_period_start + 30 days
\* for a monthly and + 365 days for a yearly subscription, and that holds of
\* the window every step leaves that changes the plan or the billing cycle.
C9_PeriodWindow ==
    /\ [](\A i \in 1..Len(subscriptions) :
            subscriptions[i].current_period_end =
                subscriptions[i].current_period_start
                    + WindowDays(subscriptions[i].billing_cycle))
    /\ [][\A i \in 1..Len(subscriptions) :
            (\/ subscriptions'[i].plan # subscriptions[i].plan
             \/ subscriptions'[i].billing_cycle # subscriptions[i].billing_cycle)
            => subscriptions'[i].current_period_end =
                   subscriptions'[i].current_period_start
                       + WindowDays(subscriptions'[i].billing_cycle)]_vars

\* C9 witness: a subscription upgraded to a yearly cycle after a day passed
C9_Witness ==
    \E i \in 1..Len(subscriptions) :
        /\ subscriptions[i].billing_cycle = "yearly"
        /\ subscriptions[i].current_period_start > 0
        /\ subscriptions[i].current_period_end
               = subscriptions[i].current_period_start + YEAR_DAYS

\* C10: the subscription that get-or-create creates has status trial,
\* trial_end = now + 14 days and a window of 30 days from now; its plan is
\* trial when GET /subscription created it.
C10_CreatedAsTrial ==
    [][\A u \in Users :
          LET new == subscriptions'[Len(subscriptions) + 1]
              fresh == /\ new.user_id = u
                       /\ new.status = "trial"
                       /\ new.amount = 0
                       /\ new.billing_cycle = "monthly"
                       /\ new.trial_end = now + TRIAL_DAYS
                       /\ new.current_period_start = now
                       /\ new.current_period_end = new.current_period_start + MONTH_DAYS
          IN ~HasSubscription(u)
             => /\ get_current_subscription(u)
                   => Len(subscriptions') = Len(subscriptions) + 1
                      /\ fresh /\ new.plan = "trial"
                /\ \A plan \in PlanValues, cycle \in CycleInputs, ok \in BOOLEAN :
                     upgrade_request(u, plan, cycle, ok)
                     => Len(subscriptions') = Len(subscriptions) + 1 /\ fresh]_vars

\* C10 witness: a trial subscription created after a day passed
C10_Witness ==
    \E i \in 1..Len(subscriptions) :
        /\ subscriptions[i].plan = "trial"
        /\ subscriptions[i].status = "trial"
        /\ subscriptions[i].current_period_start > 0
        /\ subscriptions[i].trial_end = subscriptions[i].current_period_start + TRIAL_DAYS
        /\ subscriptions[i].current_period_end
               = subscriptions[i].current_period_start + MONTH_DAYS

\* the end that days_until_renewal counts to
RelevantEnd(sub) ==
    IF sub.status = "trial" THEN sub.trial_end ELSE sub.current_period_end

\* C11: the days_until_renewal a response reports is never negative: it is
\* the number of days from now to trial_end for status trial, to
\* current_period_end otherwise, and 0 once that end has passed.
C11_DaysUntilRenewalNotNegative ==
    last.op = "get_subscription"
    => LET relevant_end == RelevantEnd(SubscriptionOf(last.user))
       IN /\ last.days_until_renewal >= 0
          /\ now <= relevant_end => last.days_until_renewal = relevant_end - now
          /\ now > relevant_end => last.days_until_renewal = 0

\* C11 witness: a trial subscription read after its trial_end reports 0
C11_Witness ==
    /\ last.op = "get_subscription"
    /\ SubscriptionOf(last.user).status = "trial"
    /\ now > SubscriptionOf(last.user).trial_end
    /\ last.days_until_renewal = 0

\* C12: for an active subscription a feature check of 'youtube', through
\* either entry point, grants access iff 'youtube' is among the plan's
\* platforms: never for trial, starter and professional, always for
\* enterprise.
C12_YoutubeFollowsPlatforms ==
    /\ IsFeatureCheck(last.op)
    /\ last.feature = "youtube"
    /\ HasSubscription(last.user)
    /\ is_active(SubscriptionOf(last.user), now)
    => /\ last.result.truthy
            <=> Contains(get_plan_features(SubscriptionOf(last.user)).platforms,
                         "youtube")
       /\ last.result.truthy <=> SubscriptionOf(last.user).plan = "enterprise"

\* C13: for an active subscription the feature check of main_complete
\* grants bulk_generation and dms_integration to starter, professional and
\* enterprise and refuses them to the trial plan.
C13_PaidPlansOnly ==
    /\ last.op = "feature_check"
    /\ last.feature \in {"bulk_generation", "dms_integration"}
    /\ HasSubscription(last.user)
    /\ is_active(SubscriptionOf(last.user), now)
    => (last.result.truthy <=> SubscriptionOf(last.user).plan # "trial")

\* C14: the platforms a caller may use are exactly facebook and instagram
\* for no user, for a user with no subscription and for one whose
\* subscription is inactive, and exactly the plan's platforms for an active
\* subscription; the lookup always answers with a list.
C14_PlatformAccessDefaults ==
    /\ get_user_platform_access(subscriptions, 0, now) = DefaultPlatforms
    /\ last.op = "generate_bulk"
       => /\ last.result.t = "list"
          /\ last.code \in {200, 403}
          /\ last.result.items =
                IF ~HasSubscription(last.user)
                   \/ ListedInactive(SubscriptionOf(last.user), now)
                THEN <<"facebook", "instagram">>
                ELSE PlanFeatures(SubscriptionOf(last.user).plan).platforms

\* C14 witness: a cancelled enterprise subscription is left with the
\* default platforms
C14_Witness ==
    /\ last.op = "generate_bulk"
    /\ HasSubscription(last.user)
    /\ SubscriptionOf(last.user).plan = "enterprise"
    /\ SubscriptionOf(last.user).status = "cancelled"
    /\ last.result.items = <<"facebook", "instagram">>

\* the URLs a run over one vehicle goes through: the first IMAGE_LIMIT of a
\* scraped listing, all of a DMS vehicle
Attempted(run) ==
    IF run.op = "scraping"
    THEN SubSeq(run.urls, 1, Min(IMAGE_LIMIT, Len(run.urls)))
    ELSE run.urls

\* the positions of the images that download and are image files
FineImages(run) == {k \in 1..Len(Attempted(run)) : Attempted(run)[k] = "ok"}

\* the records the last run added, and those of them flagged primary
AddedRecords == (scrape.before + 1)..Len(images)
AddedPrimaries == {i \in AddedRecords : images[i].is_primary}

C16_PartialFailureIsCounted ==
    scrape.op = "scraping"
    => /\ ~scrape.raised
       /\ Len(Attempted(scrape)) <= 5
       /\ scrape.saved_count + Len(scrape.errors) = Len(Attempted(scrape))
       /\ \A k \in 1..Len(Attempted(scrape)) :
            Cardinality({e \in 1..Len(scrape.errors) : scrape.errors[e].index = k})
                = IF k \in FineImages(scrape) THEN 0 ELSE 1
       /\ scrape.urls = <<"ok", "download_fails", "ok">>
          => /\ scrape.saved_count = 2
             /\ Len(scrape.errors) = 1
             /\ \E i \in AddedRecords :
                  images[i].is_primary /\ images[i].source_url = 1

\* C17: at most one image record of a dealership's vehicle is primary, after
\* any sequence of uploads, ingestion runs and metadata updates.
C17_OnePrimaryPerVehicle ==
    \A d \in Dealerships, v \in Vehicles :
        Cardinality({i \in 1..Len(images) :
                        /\ images[i].dealership_id = d
                        /\ images[i].vehicle = v
                        /\ images[i].is_primary}) <= 1

\* the pages a run is to process: the first PAGE_LIMIT inventory pages, the
\* root when there is none
PagesToProcess(site) ==
    IF site.n_pages = 0
    THEN <<0>>
    ELSE [k \in 1..Min(PAGE_LIMIT, site.n_pages) |-> k]

\* the error entries of a run that name page
PageErrors(run, page) ==
    {e \in 1..Len(run.errors) :
        run.errors[e].kind = "page" /\ run.errors[e].index = page}

\* C18: in a run that returns its counts, every page is processed in turn,
\* whichever page fails, and a page whose fetch or extraction fails leaves
\* an error entry naming that page, counted in error_count.
C18_PageFailureIsRecorded ==
    scrape.op = "run" /\ scrape.fault = "none"
    => /\ scrape.pages = PagesToProcess(scrape.site)
       /\ scrape.error_count = Len(scrape.errors)
       /\ \A p \in 1..Len(scrape.pages) :
            scrape.pages[p] = scrape.site.failing
            => PageErrors(scrape, scrape.pages[p]) # {}

\* C19: a run never raises: it returns scraped_count, error_count, errors
\* and the platform, and when an exception reaches the top level it returns
\* exactly 0, 1, one error message and 'unknown'.
C19_RunAlwaysReturns ==
    scrape.op = "run"
    => /\ ~scrape.raised
       /\ scrape.saved_count >= 0
       /\ scrape.error_count >= 0
       /\ scrape.platform \in {"custom", "unknown"}
       /\ scrape.fault \in TopLevelFaults
          => /\ scrape.saved_count = 0
             /\ scrape.error_count = 1
             /\ Len(scrape.errors) = 1
             /\ scrape.errors[1].kind = "website"
             /\ scrape.platform = "unknown"

\* C19 witness: an exception after the pages were processed, on a website
\* whose platform was detected and whose images left errors behind
C19_Witness ==
    /\ scrape.op = "run"
    /\ scrape.fault = "after_pages"
    /\ scrape.site.platform = "custom"
    /\ scrape.attempted > 0
    /\ Len(scrape.pages) = PAGE_LIMIT
    /\ scrape.error_count = 1
    /\ scrape.platform = "unknown"

\* C20: a run with an integer max_vehicles processes at most 5 pages, at
\* most max_vehicles listings of each page and at most 5 images of each
\* listing, so scraped_count <= 5 * max_vehicles * 5; a website with no
\* inventory page has exactly its root processed.
C20_RunIsCapped ==
    scrape.op = "run" /\ scrape.fault = "none" /\ scrape.max_vehicles.json = "int"
    => /\ Len(scrape.pages) <= 5
       /\ \A p \in 1..Len(scrape.ingested) :
            scrape.ingested[p] <= scrape.max_vehicles.n
       /\ scrape.attempted <= 5
       /\ scrape.saved_count <= 5 * scrape.max_vehicles.n * 5
       /\ scrape.site.n_pages = 0 => scrape.pages = <<0>>

\* the maximal runs of word characters of text, as <<first, last>>
WordRuns(text) ==
    {r \in (1..Len(text)) \X (1..Len(text)) :
        /\ r[1] <= r[2]
        /\ \A k \in r[1]..r[2] : IsWord(text[k])
        /\ r[1] = 1 \/ ~IsWord(text[r[1] - 1])
        /\ r[2] = Len(text) \/ ~IsWord(text[r[2] + 1])}

\* the four-digit tokens 19xx and 20xx
YearTokens ==
    {<<a, b, c, d>> : a \in {"1"}, b \in {"9"}, c \in Digits, d \in Digits}
    \cup {<<a, b, c, d>> : a \in {"2"}, b \in {"0"}, c \in Digits, d \in Digits}

\* the text holds a token that is a four-digit year
HasYearToken(text) ==
    \E r \in WordRuns(text) : SubSeq(text, r[1], r[2]) \in YearTokens

\* the block shows an image that has a source and is no logo
HasAcceptedImage(imgs) ==
    \E k \in 1..Len(imgs) : imgs[k].has_src /\ "logo" \notin imgs[k].words

\* a URL of the block, of an img tag or of the detail link, is malformed
HasMalformedUrl(e) ==
    \/ e.link = "malformed"
    \/ \E k \in 1..Len(e.imgs) : e.imgs[k].has_src /\ e.imgs[k].malformed

\* C21: a matched block gives a listing exactly when its text holds a
\* four-digit 19xx/20xx token and it shows an accepted image; a block that
\* is dropped adds nothing to the listings of the page.
C21_GateIsYearAndImage ==
    extraction.op = "extract"
    => /\ extraction.listing
          <=> HasYearToken(extraction.text) /\ HasAcceptedImage(extraction.imgs)
       /\ ~extraction.listing => extraction.vehicles = 0

\* C21, amended: a listing is given only for a block with a year token and
\* an accepted image, and for every such block none of whose URLs is
\* malformed, with the year the leftmost token and the images the accepted
\* ones in order; a block with a malformed URL is dropped whole; a dropped
\* block adds nothing to the listings of the page.
C21_GateUnlessMalformed ==
    extraction.op = "extract"
    => /\ extraction.listing
          <=> /\ HasYearToken(extraction.text)
              /\ HasAcceptedImage(extraction.imgs)
              /\ ~HasMalformedUrl(extraction)
       /\ extraction.listing
          => /\ extraction.year \in YearTokens
             /\ extraction.images # <<>>
             /\ \A k \in 1..Len(extraction.images) :
                  LET tag == extraction.imgs[extraction.images[k]]
                  IN tag.has_src /\ "logo" \notin tag.words
       /\ ~extraction.listing => extraction.vehicles = 0

\* C21 witness: a block with a photo whose only digits run into a letter
\* gives no listing
C21_Witness ==
    /\ extraction.op = "extract"
    /\ extraction.text = <<"2", "0", "1", "9", "a">>
    /\ HasAcceptedImage(extraction.imgs)
    /\ ~HasMalformedUrl(extraction)
    /\ ~extraction.listing

\* the record two upgrade calls leave when the call of thread a returns
\* before the call of thread b begins
SerialUpgrades(a, b) ==
    upgrade_fields(upgrade_fields(UpgradeStart, threads[a].plan,
                                  threads[a].cycle, now),
                   threads[b].plan, threads[b].cycle, now)

\* C22: when two upgrade calls of one tenant with different plan or billing
\* cycle have both returned, however their assignments interleaved, the
\* record is the one that one of the two serial orders leaves: plan, amount,
\* billing_cycle and current_period_end are not mixed from both calls.
C22_UpgradesSerialize ==
    \A a, b \in 1..NumThreads :
        /\ a # b
        /\ threads[a].pc = "done" /\ threads[b].pc = "done"
        /\ \A t \in 1..NumThreads \ {a, b} : threads[t].pc = "idle"
        /\ <<threads[a].plan, threads[a].cycle>> # <<threads[b].plan, threads[b].cycle>>
        => subscriptions[1] \in {SerialUpgrades(a, b), SerialUpgrades(b, a)}

\* the fields of a subscription an upgrade is about
SameTerms(a, b) ==
    /\ a.plan = b.plan
    /\ a.status = b.status
    /\ a.amount = b.amount
    /\ a.billing_cycle = b.billing_cycle
    /\ a.current_period_start = b.current_period_start
    /\ a.current_period_end = b.current_period_end

\* C23: the upgrade request of a tenant who holds a subscription leaves its
\* plan, status, amount and period as they were, whether it answers with a
\* payment intent or rejects the request.
C23_UpgradeRequestLeavesSubscription ==
    \A u \in Users, plan \in PlanInputs, cycle \in CycleInputs, ok \in BOOLEAN :
        HasSubscription(u)
        => LET r == upgrade_request_result(subscriptions, payments, u, plan,
                                           cycle, ok, now)
               i == get_subscription_by_user(subscriptions, u)
           IN /\ r.code \in {200, 400, 500}
              /\ SameTerms(r.subs[i], subscriptions[i])

\* C24: a payment confirmation that reports failure has changed no
\* subscription and has marked no payment completed, and one that upgrades
\* a subscription names a payment that exists and is then completed.
C24_ConfirmAllOrNothing ==
    \A u \in Users, pid \in 1..(Len(payments) + 1), plan \in PlanInputs,
       cycle \in CycleInputs, ok \in BOOLEAN :
        LET r == confirm_payment_result(subscriptions, payments, u, pid, plan,
                                        cycle, ok, now)
        IN /\ r.code # 200
              => /\ r.subs = subscriptions
                 /\ \A p \in 1..Len(payments) :
                      r.pays[p].status = "completed"
                      => payments[p].status = "completed"
           /\ r.upgraded
              => /\ pid \in 1..Len(payments)
                 /\ r.pays[pid].status = "completed"

\* C25: a payment confirmation issued by a tenant leaves every other
\* tenant's subscriptions and payments as they were, whatever payment_id it
\* names.
C25_ConfirmTouchesOwnRecords ==
    \A u \in Users, pid \in 1..(Len(payments) + 1), plan \in PlanInputs,
       cycle \in CycleInputs, ok \in BOOLEAN :
        LET r == confirm_payment_result(subscriptions, payments, u, pid, plan,
                                        cycle, ok, now)
        IN /\ \A i \in 1..Len(subscriptions) :
                subscriptions[i].user_id # u => r.subs[i] = subscriptions[i]
           /\ \A p \in 1..Len(payments) :
                payments[p].user_id # u => r.pays[p] = payments[p]

\* C27: a payment is created pending, and once it is completed or failed no
\* call of process_payment changes its status, its transaction id or its
\* processed_at.
C27_PaymentStatusOneWay ==
    /\ \A u \in Users, amount \in {0, 197} :
         NewPayment(u, 1, amount).status = "pending"
    /\ \A pid \in 1..Len(payments), success \in BOOLEAN :
         payments[pid].status # "pending"
         => LET r == process_payment(subscriptions, payments, pid, success, now)
            IN /\ r.pays[pid].status = payments[pid].status
               /\ r.pays[pid].helcim_transaction_id
                    = payments[pid].helcim_transaction_id
               /\ r.pays[pid].processed_at = payments[pid].processed_at

\* the tenant holds a subscription on a paid plan that is active now and
\* was activated on an earlier day
PaidBefore(u) ==
    /\ HasSubscription(u)
    /\ SubscriptionOf(u).plan # "trial"
    /\ SubscriptionOf(u).status = "active"
    /\ SubscriptionOf(u).current_period_start < now
    /\ is_active(SubscriptionOf(u), now)

\* C26: a tenant whose subscription a payment confirmation has made active
\* on a paid plan is not refused at login as trial-expired, and the User
\* record no longer says trial.
C26_PaidTenantCanLogIn ==
    last.op = "login" /\ PaidBefore(last.user)
    => /\ last.code # 402
       /\ users[last.user].subscription_status # "trial"

\* the feature names of the gate's resolution table: the keys of
\* feature_mapping in main_complete.check_feature_access
ResolutionTable ==
    {"website_scraping", "bulk_generation", "automation", "analytics", "youtube",
     "dms_integration", "unlimited_posts", "unlimited_images"}

\* C28: for every tenant state and every feature name of the resolution
\* table the feature check of the subscription service and the one of
\* main_complete give the same truth value.
C28_FeatureGatesAgree ==
    \A u \in Users, feature \in ResolutionTable :
        service_check_feature_access(subscriptions, u, feature, now).truthy
            <=> main_check_feature_access(subscriptions, u, feature, now).truthy


C30_ErrorCountIsLenErrors ==
    scrape.op = "run" => scrape.error_count = Len(scrape.errors)

\* C30 witness: a run that recorded a failed image and a failed listing
C30_Witness ==
    /\ scrape.op = "run"
    /\ \E e \in 1..Len(scrape.errors) : scrape.errors[e].kind = "vehicle"
    /\ \E e \in 1..Len(scrape.errors) : scrape.errors[e].kind \in {"save", "download"}
    /\ scrape.error_count = Len(scrape.errors)

====
